---- MODULE Spec2Model ----
(***************************************************************************)
(* State-machine model of the WebDAV storage driver (src/src/index.ts, the *)
(* TUS-capable DriverWebDAV; src/src/webdav.ts is the plain variant).      *)
(*                                                                         *)
(* Strings are sequences of one-character strings, byte buffers are        *)
(* sequences of integers 0..255.  The remote store is the only durable     *)
(* state; the driver holds the immutable `root` only.                      *)
(***************************************************************************)
EXTENDS Integers, Sequences, FiniteSets, TLC

VARIABLES
    root,    \* DriverWebDAV.root, fixed by the constructor
    cwd,     \* process working directory (read by path.relative for relative paths)
    store,   \* remote store: absolute remote path -> [exists, data]
    net,     \* "up" or "down": whether backend calls currently succeed
    wc,      \* per caller: the writeChunk call in flight (position and locals)
    last,    \* the operation that completed in the latest step (or NoOp)
    up,      \* per remote path: the chunks written sequentially since create
    ls       \* the list generator being consumed (position and locals)

vars == <<root, cwd, store, net, wc, last, up, ls>>

\* ------------------------------------------------------------------ bounds

\* Longest object / buffer handled (bytes).
MaxLen == 2
\* Most entries in one backend directory listing.
MaxList == 3
\* Longest caller path explored by the path round trip (characters).
MaxPath == 4

\* ------------------------------------------------------------ primitives

\* An optional JavaScript value: None is undefined, Some(x) is x.
None == <<>>
Some(x) == <<x>>

Min(a, b) == IF a < b THEN a ELSE b

\* All sequences over S of length <= n.
SeqsUpTo(S, n) == UNION {[1..k -> S] : k \in 0..n}

\* ------------------------------------------------------- string helpers

\* s.replace(/\/$/, ''): drop one trailing slash.
StripTrailingSlash(s) ==
    IF Len(s) > 0 /\ s[Len(s)] = "/" THEN SubSeq(s, 1, Len(s) - 1) ELSE s

\* s.replace(/^\//, ''): drop one leading slash.
StripLeadingSlash(s) ==
    IF Len(s) > 0 /\ s[1] = "/" THEN Tail(s) ELSE s

\* s.replace(/^\/+/, ''): drop every leading slash.
RECURSIVE StripLeadingSlashes(_)
StripLeadingSlashes(s) ==
    IF Len(s) > 0 /\ s[1] = "/" THEN StripLeadingSlashes(Tail(s)) ELSE s

\* ------------------------------------------- node:path (posix) semantics

\* s.split('/'): the segments of s between slashes (empty segments kept).
RECURSIVE SplitAcc(_, _, _)
SplitAcc(s, cur, acc) ==
    IF s = <<>> THEN Append(acc, cur)
    ELSE IF Head(s) = "/" THEN SplitAcc(Tail(s), <<>>, Append(acc, cur))
    ELSE SplitAcc(Tail(s), Append(cur, Head(s)), acc)

SplitPath(s) == SplitAcc(s, <<>>, <<>>)

\* normalizeString of an absolute path: '' and '.' segments vanish, '..' pops
\* (and is dropped at the filesystem root).
RECURSIVE NormSegs(_, _)
NormSegs(segs, acc) ==
    IF segs = <<>> THEN acc
    ELSE LET h == Head(segs) IN
         IF h = <<>> \/ h = <<".">> THEN NormSegs(Tail(segs), acc)
         ELSE IF h = <<".", ".">>
              THEN NormSegs(Tail(segs),
                            IF acc = <<>> THEN acc ELSE SubSeq(acc, 1, Len(acc) - 1))
         ELSE NormSegs(Tail(segs), Append(acc, h))

IsAbsolute(s) == Len(s) > 0 /\ s[1] = "/"

\* path.resolve(s): the normalized absolute path, as its list of segments;
\* a relative (or empty) s is resolved against the working directory.
Resolve(s) ==
    IF IsAbsolute(s) THEN NormSegs(SplitPath(s), <<>>)
    ELSE NormSegs(SplitPath(cwd) \o SplitPath(s), <<>>)

RECURSIVE JoinSegs(_)
JoinSegs(segs) ==
    IF segs = <<>> THEN <<>>
    ELSE IF Len(segs) = 1 THEN Head(segs)
    ELSE Head(segs) \o <<"/">> \o JoinSegs(Tail(segs))

RECURSIVE CommonLen(_, _)
CommonLen(a, b) ==
    IF a = <<>> \/ b = <<>> \/ Head(a) # Head(b) THEN 0
    ELSE 1 + CommonLen(Tail(a), Tail(b))

\* path.relative(from, to): one '..' per segment of `from` below the common
\* ancestor, then the segments of `to` below it.
Relative(from, to) ==
    IF from = to THEN <<>>
    ELSE LET F == Resolve(from)
             T == Resolve(to)
             k == CommonLen(F, T)
         IN JoinSegs([i \in 1..(Len(F) - k) |-> <<".", ".">>]
                     \o SubSeq(T, k + 1, Len(T)))

\* ------------------------------------------------------- path normalizer

\* constructor: this.root = config.root ?? '/'
ConfigRoot(cfgRoot) == IF cfgRoot = None THEN <<"/">> ELSE cfgRoot[1]

\* fullPath(filepath): `${root.replace(/\/$/, '')}/${filepath.replace(/^\//, '')}`
fullPath(filepath) ==
    StripTrailingSlash(root) \o <<"/">> \o StripLeadingSlash(filepath)

\* Mutant of RelativeToRoot: the arguments of path.relative swapped.
RelativeToRoot_Swapped(filename) == StripLeadingSlashes(Relative(filename, root))

\* list's conversion of a backend filename:
\* relative(this.root, item.filename).replace(/^\/+/, '')
RelativeToRoot(filename) == StripLeadingSlashes(Relative(root, filename))

\* ------------------------------------------------------ buffers, strings

\* UTF-8 encoding of one code point (the subset below U+0800).
Utf8EncodeChar(cp) ==
    IF cp < 128 THEN <<cp>> ELSE <<192 + (cp \div 64), 128 + (cp % 64)>>

RECURSIVE Utf8Encode(_)
Utf8Encode(str) ==
    IF str = <<>> THEN <<>> ELSE Utf8EncodeChar(Head(str)) \o Utf8Encode(Tail(str))

\* UTF-8 decoding as a text response carries it; 65533 is U+FFFD, the
\* replacement for a byte sequence that is not valid UTF-8.
RECURSIVE Utf8Decode(_)
Utf8Decode(b) ==
    IF b = <<>> THEN <<>>
    ELSE IF Head(b) < 128 THEN <<Head(b)>> \o Utf8Decode(Tail(b))
    ELSE IF /\ Head(b) >= 194 /\ Head(b) < 224 /\ Len(b) >= 2
            /\ b[2] >= 128 /\ b[2] < 192
         THEN <<(Head(b) - 192) * 64 + (b[2] - 128)>> \o Utf8Decode(SubSeq(b, 3, Len(b)))
    ELSE <<65533>> \o Utf8Decode(Tail(b))

\* The JavaScript values a backend call or a stream hands over for bytes b.
AsBuffer(b) == [t |-> "Buffer", v |-> b]
AsArrayBuffer(b) == [t |-> "ArrayBuffer", v |-> b]
AsString(b) == [t |-> "string", v |-> Utf8Decode(b)]

PayloadKinds == {"Buffer", "ArrayBuffer", "string"}

\* A text payload exists only for bytes that are the encoding of some text.
CanDeliver(kind, b) == kind = "string" => Utf8Encode(Utf8Decode(b)) = b

Deliver(kind, b) ==
    IF kind = "string" THEN AsString(b)
    ELSE IF kind = "ArrayBuffer" THEN AsArrayBuffer(b)
    ELSE AsBuffer(b)

\* { data: x } envelope some backend calls wrap their result in.
Wrap(env, x) == IF env THEN [data |-> x] ELSE x

\* 'data' in res ? res.data : res
Unwrap(res) == IF "data" \in DOMAIN res THEN res.data ELSE res

\* writeChunk's normalisation of the whole-file read to a Buffer.
ToBuffer(existingRaw) ==
    IF existingRaw.t = "string" THEN Utf8Encode(existingRaw.v)
    ELSE IF existingRaw.t = "ArrayBuffer" THEN existingRaw.v
    ELSE existingRaw.v

\* Buffer.from(chunk) for one stream fragment.
BufferFrom(chunk) ==
    IF chunk.t = "string" THEN Utf8Encode(chunk.v) ELSE chunk.v

\* buf.subarray(start, end): indices are clamped to the buffer, negative
\* ones count from its end.
ClampIndex(i, n) == IF i < 0 THEN (IF n + i < 0 THEN 0 ELSE n + i) ELSE Min(i, n)

\* Mutant of Subarray: the end index ignored, the view runs to the buffer's end.
Subarray_IgnoreEnd(buf, start, end) ==
    SubSeq(buf, ClampIndex(start, Len(buf)) + 1, Len(buf))

Subarray(buf, start, end) ==
    LET s == ClampIndex(start, Len(buf))
        e == ClampIndex(end, Len(buf))
    IN IF e <= s THEN <<>> ELSE SubSeq(buf, s + 1, e)

\* Buffer.concat(list)
RECURSIVE BufferConcat(_)
BufferConcat(list) ==
    IF list = <<>> THEN <<>> ELSE Head(list) \o BufferConcat(Tail(list))

\* Mutant of NewContent: the existing prefix dropped, only the chunk is kept.
NewContent_ChunksOnly(existingBuffer, offset, chunks) == BufferConcat(chunks)

\* Mutant of NewContent: the chunk appended to the whole existing object,
\* whatever the offset.
NewContent_Append(existingBuffer, offset, chunks) ==
    BufferConcat(<<existingBuffer>> \o chunks)

\* Mutant of NewContent: the chunk inserted at offset, the bytes after it kept.
NewContent_Insert(existingBuffer, offset, chunks) ==
    BufferConcat(<<Subarray(existingBuffer, 0, offset)>> \o chunks
                 \o <<Subarray(existingBuffer, offset, Len(existingBuffer))>>)

\* writeChunk's reconstructed object:
\* Buffer.concat([existingBuffer.subarray(0, offset), ...chunks])
NewContent(existingBuffer, offset, chunks) ==
    BufferConcat(<<Subarray(existingBuffer, 0, offset)>> \o chunks)

\* String(n) for a non-negative integer (template-literal interpolation).
Digit(d) == <<"0", "1", "2", "3", "4", "5", "6", "7", "8", "9">>[d + 1]

RECURSIVE NumToString(_)
NumToString(n) ==
    IF n < 10 THEN <<Digit(n)>> ELSE Append(NumToString(n \div 10), Digit(n % 10))

\* Mutant of RangeHeader: `end || ''` in place of `end ?? ''`, so that an end
\* of 0 is rendered as no end.
RangeHeader_OrEmpty(start, end) ==
    <<"b", "y", "t", "e", "s", "=">> \o NumToString(start) \o <<"-">>
        \o (IF end = None \/ end[1] = 0 THEN <<>> ELSE NumToString(end[1]))

\* Range: `bytes=${start}-${end ?? ''}`
RangeHeader(start, end) ==
    <<"b", "y", "t", "e", "s", "=">> \o NumToString(start) \o <<"-">>
        \o (IF end = None THEN <<>> ELSE NumToString(end[1]))

\* ---------------------------------------------------------- remote store

Missing == [exists |-> FALSE, data |-> <<>>]
File(d) == [exists |-> TRUE, data |-> d]

\* A backend call that needs the object at path succeeds when the connection
\* is up and the object is there.
Reachable(path) == net = "up" /\ store[path].exists

\* The error the backend raises for a failed call.
BackendError(path) == IF net = "down" THEN "transport" ELSE "notfound"

\* One backend call as the client sees it: method, arguments, outcome.
Call(m, args, ok) == [m |-> m, args |-> args, ok |-> ok]

\* The bytes a content stream (a sequence of fragments) carries.
RECURSIVE StreamBytes(_)
StreamBytes(content) ==
    IF content = <<>> THEN <<>> ELSE Head(content) \o StreamBytes(Tail(content))

\* ------------------------------------------------------- call bookkeeping

Procs == {1, 2}

NoOp == [op |-> "none", args |-> <<>>, trace |-> <<>>, ok |-> TRUE, ret |-> <<>>]

Done(op, args, trace, ok, ret) ==
    [op |-> op, args |-> args, trace |-> trace, ok |-> ok, ret |-> ret]

\* No other call has replaced the object since this call read it.
NotOvertaken == [op |-> "none", offset |-> 0, data |-> <<>>]

\* Another call's successful change of the object: the operation, and for a
\* writeChunk the offset and the bytes of its chunk.
Overtaken(op, offset, data) == [op |-> op, offset |-> offset, data |-> data]

IdleCall ==
    [pc |-> "idle", f |-> <<>>, offset |-> 0, content |-> <<>>, pos |-> 0,
     object |-> <<>>, existing |-> <<>>, chunks |-> <<>>, trace |-> <<>>,
     over |-> NotOvertaken, reissue |-> None]

AllIdle == \A p \in Procs : wc[p].pc = "idle"

\* The callers whose writeChunk is between its read and its write on path.
InFlight(path) == {p \in Procs : wc[p].pc # "idle" /\ fullPath(wc[p].f) = path}

NoUpload == [valid |-> FALSE, data |-> <<>>]

\* Bookkeeping after a successful whole-object change of the paths in S by
\* operation `op`: the sequential upload history of those paths ends, and every
\* writeChunk in flight on them has been overtaken.
Overtake(S, by) ==
    [p \in Procs |->
        IF wc[p].pc = "drain" /\ fullPath(wc[p].f) \in S
        THEN [wc[p] EXCEPT !.over = by] ELSE wc[p]]

EndUploads(S) ==
    [path \in DOMAIN up |-> IF path \in S THEN NoUpload ELSE up[path]]

\* -------------------------------------------------------- backend client
\* What each WebDAV client call does to the remote store.  A result is
\* [trace, ok, ret, store]: the backend calls issued, whether the call
\* resolved, its value (or the error raised) and the store afterwards.

R(trace, ok, ret, st) == [trace |-> trace, ok |-> ok, ret |-> ret, store |-> st]

\* The stat entry the backend reports; a server may omit size and lastmod.
StatEntry(path, hasSize, hasLastmod) ==
    CASE hasSize /\ hasLastmod ->
           [filename |-> path, type |-> "file", size |-> Len(store[path].data),
            lastmod |-> "lastmod"]
      [] hasSize /\ ~hasLastmod ->
           [filename |-> path, type |-> "file", size |-> Len(store[path].data)]
      [] ~hasSize /\ hasLastmod ->
           [filename |-> path, type |-> "file", lastmod |-> "lastmod"]
      [] OTHER -> [filename |-> path, type |-> "file"]

StatShapes == [env : BOOLEAN, size : BOOLEAN, lastmod : BOOLEAN]

\* ------------------------------------------------------------- handlers

\* read(filepath, options)
read(filepath, options) ==
    LET remotePath == fullPath(filepath)
        ranged == options # None /\ "range" \in DOMAIN options[1]
        headers == IF ranged
                   THEN Some([Range |-> RangeHeader(options[1].range.start,
                                                    options[1].range.end)])
                   ELSE None
    IN R(<<Call("createReadStream", <<remotePath, headers>>, TRUE)>>,
         TRUE, "stream", store)

\* stat(filepath); shape is the form of the backend's answer.
stat(filepath, shape) ==
    LET remotePath == fullPath(filepath) IN
    IF ~Reachable(remotePath)
    THEN R(<<Call("stat", <<remotePath>>, FALSE)>>, FALSE,
           BackendError(remotePath), store)
    ELSE LET res == Wrap(shape.env, StatEntry(remotePath, shape.size, shape.lastmod))
             fileStat == Unwrap(res)
         IN R(<<Call("stat", <<remotePath>>, TRUE)>>, TRUE,
              [size |-> IF "size" \in DOMAIN fileStat THEN fileStat.size ELSE 0,
               modified |-> IF "lastmod" \in DOMAIN fileStat
                            THEN fileStat.lastmod ELSE "now"],
              store)

\* Mutant of exists: only a not-found is caught, a transport error is rethrown.
exists_Rethrow(filepath) ==
    LET remotePath == fullPath(filepath)
        ok == Reachable(remotePath)
    IN IF net = "down"
       THEN R(<<Call("stat", <<remotePath>>, FALSE)>>, FALSE, "transport", store)
       ELSE R(<<Call("stat", <<remotePath>>, ok)>>, TRUE, ok, store)

\* exists(filepath): try { await client.stat(...); return true } catch { return false }
exists(filepath) ==
    LET remotePath == fullPath(filepath)
        ok == Reachable(remotePath)
    IN R(<<Call("stat", <<remotePath>>, ok)>>, TRUE, ok, store)

\* move(src, dest)
move(src, dest) ==
    LET s == fullPath(src)
        d == fullPath(dest)
    IN IF ~Reachable(s)
       THEN R(<<Call("moveFile", <<s, d>>, FALSE)>>, FALSE, BackendError(s), store)
       ELSE R(<<Call("moveFile", <<s, d>>, TRUE)>>, TRUE, None,
              [store EXCEPT ![d] = store[s], ![s] = Missing])

\* copy(src, dest)
copy(src, dest) ==
    LET s == fullPath(src)
        d == fullPath(dest)
    IN IF ~Reachable(s)
       THEN R(<<Call("copyFile", <<s, d>>, FALSE)>>, FALSE, BackendError(s), store)
       ELSE R(<<Call("copyFile", <<s, d>>, TRUE)>>, TRUE, None,
              [store EXCEPT ![d] = store[s]])

\* write(filepath, content): the backend replaces the object by the stream's bytes.
write(filepath, content) ==
    LET remotePath == fullPath(filepath) IN
    IF net # "up"
    THEN R(<<Call("putFileContents", <<remotePath, StreamBytes(content)>>, FALSE)>>,
           FALSE, BackendError(remotePath), store)
    ELSE R(<<Call("putFileContents", <<remotePath, StreamBytes(content)>>, TRUE)>>,
           TRUE, None,
           [store EXCEPT ![remotePath] = File(StreamBytes(content))])

\* Mutant of delete: a failed deleteFile is tried a second time.
delete_Retry(filepath) ==
    LET remotePath == fullPath(filepath) IN
    IF ~Reachable(remotePath)
    THEN R(<<Call("deleteFile", <<remotePath>>, FALSE),
             Call("deleteFile", <<remotePath>>, FALSE)>>, FALSE,
           BackendError(remotePath), store)
    ELSE R(<<Call("deleteFile", <<remotePath>>, TRUE)>>, TRUE, None,
           [store EXCEPT ![remotePath] = Missing])

\* delete(filepath)
delete(filepath) ==
    LET remotePath == fullPath(filepath) IN
    IF ~Reachable(remotePath)
    THEN R(<<Call("deleteFile", <<remotePath>>, FALSE)>>, FALSE,
           BackendError(remotePath), store)
    ELSE R(<<Call("deleteFile", <<remotePath>>, TRUE)>>, TRUE, None,
           [store EXCEPT ![remotePath] = Missing])

\* Mutant of NextFile: the type test dropped, directories are yielded too.
NextFile_All(contents) == contents

\* The loop of list from the entry it stands at: the entries that are not a
\* file with a string filename are passed over; what is returned is the rest of
\* the listing from the first entry that is one (empty when there is none).
RECURSIVE NextFile(_)
NextFile(contents) ==
    IF contents = <<>> THEN <<>>
    ELSE LET item == Head(contents) IN
         IF item.type = "file" /\ "filename" \in DOMAIN item
         THEN contents
         ELSE NextFile(Tail(contents))

\* What one resumption of a generator does: it yields a path, returns, or
\* throws; the backend calls it issued and the entries left to visit.
Resumed(kind, trace, value, rest) ==
    [kind |-> kind, trace |-> trace, value |-> value, rest |-> rest]

\* list(prefix = '') is an async generator: the call runs nothing, and each
\* next() runs the body up to the next yield.  pc is "start" before the first
\* next(), which fetches the listing (res is the backend's answer, an array or
\* an envelope of one); from then on `rest` are the entries not visited yet.
\* The path of an entry is computed when the loop reaches it.
listResume(pc, prefixArg, rest, res) ==
    LET prefix == IF prefixArg = None THEN <<>> ELSE prefixArg[1]
        remotePrefix == fullPath(prefix)
        fetch(ok) == Call("getDirectoryContents", <<remotePrefix, "deep">>, ok)
        loop(contents, trace) ==
            LET at == NextFile(contents) IN
            IF at = <<>> THEN Resumed("return", trace, None, <<>>)
            ELSE Resumed("yield", trace, RelativeToRoot(Head(at).filename), Tail(at))
    IN IF pc = "start"
       THEN IF net # "up"
            THEN Resumed("throw", <<fetch(FALSE)>>, "transport", <<>>)
            ELSE loop(Unwrap(res).v, <<fetch(TRUE)>>)
       ELSE loop(rest, <<>>)

\* tusExtensions
tusExtensions == <<"creation", "termination", "expiration">>

\* Buffer.alloc(n)
BufferAlloc(n) == [i \in 1..n |-> 0]

\* Readable.from(buffer): a stream delivering the buffer as its one fragment.
ReadableFrom(buffer) == <<buffer>>

\* Mutant of createChunkedUpload: the context returned without the empty write.
createChunkedUpload_SkipWrite(filepath, context) == R(<<>>, TRUE, context, store)

\* createChunkedUpload(filepath, context)
createChunkedUpload(filepath, context) ==
    LET emptyStream == ReadableFrom(BufferAlloc(0))
        w == write(filepath, emptyStream)
    IN IF w.ok THEN R(w.trace, TRUE, context, w.store) ELSE w

\* Mutant of deleteChunkedUpload: resolves without deleting, as finish does.
deleteChunkedUpload_NoOp(filepath, context) == R(<<>>, TRUE, None, store)

\* deleteChunkedUpload(filepath, _context)
deleteChunkedUpload(filepath, context) == delete(filepath)

\* Mutant of finishChunkedUpload: finishing rewrites the object as a new,
\* empty one.
finishChunkedUpload_Rewrite(filepath, context) ==
    LET w == write(filepath, ReadableFrom(BufferAlloc(0)))
    IN IF w.ok THEN R(w.trace, TRUE, None, w.store) ELSE w

\* finishChunkedUpload(_filepath, _context): no finalization step
finishChunkedUpload(filepath, context) == R(<<>>, TRUE, None, store)

\* --------------------------------------------------------------- inputs

Files == {<<"f">>, <<"/", "g">>}
Contexts == {"ctx1", "ctx2"}
\* Content streams: empty, one fragment, two fragments.
Streams ==
    {<<>>, <<<<97>>>>, <<<<98>>>>, <<<<98, 97>>>>, <<<<97>>, <<98>>>>}
Offsets == 0..MaxLen
ReadOptions ==
    {None, Some([other |-> TRUE]),
     Some([range |-> [start |-> 10, end |-> Some(19)]]),
     Some([range |-> [start |-> 5, end |-> None]]),
     Some([range |-> [start |-> 0, end |-> Some(0)]])}
\* The forms of the whole-file read's answer.
ReadShapes == BOOLEAN \X PayloadKinds
ListPrefixes == {None, Some(<<"d">>)}
\* The absolute filename the server reports for the object a request path names.
ServerPath(path) == <<"/">> \o JoinSegs(NormSegs(SplitPath(path), <<>>))
\* The entries a deep listing under root can report.
ListEntries ==
    {[type |-> "file", filename |-> ServerPath(fullPath(n))] :
        n \in {<<"f">>, <<"g">>, <<"d", "/", "f">>}}
    \cup {[type |-> "directory", filename |-> ServerPath(fullPath(<<"d">>))]}
Listings == SeqsUpTo(ListEntries, MaxList)
\* An array as a backend call returns it.
AsArray(items) == [t |-> "Array", v |-> items]

\* -------------------------------------------------------------- actions

\* An operation that runs to completion in one backend step.  `touched` are
\* the paths a successful run replaced, `newUp` the upload history after it.
Complete(op, args, r, touched, newUp) ==
    /\ last' = Done(op, args, r.trace, r.ok, r.ret)
    /\ store' = r.store
    /\ wc' = IF r.ok THEN Overtake(touched, Overtaken(op, 0, <<>>)) ELSE wc
    /\ up' = IF r.ok THEN newUp ELSE up
    /\ UNCHANGED <<root, cwd, net, ls>>

CallRead(f, o) ==
    Complete("read", [f |-> f, options |-> o], read(f, o), {}, up)

CallStat(f, shape) ==
    Complete("stat", [f |-> f], stat(f, shape), {}, up)

CallExists(f) ==
    Complete("exists", [f |-> f], exists(f), {}, up)

CallMove(src, dest) ==
    /\ fullPath(src) # fullPath(dest)
    /\ Complete("move", [src |-> src, dest |-> dest], move(src, dest),
                {fullPath(src), fullPath(dest)},
                EndUploads({fullPath(src), fullPath(dest)}))

CallCopy(src, dest) ==
    /\ fullPath(src) # fullPath(dest)
    /\ Complete("copy", [src |-> src, dest |-> dest], copy(src, dest),
                {fullPath(dest)}, EndUploads({fullPath(dest)}))

CallWrite(f, content) ==
    Complete("write", [f |-> f], write(f, content),
             {fullPath(f)}, EndUploads({fullPath(f)}))

CallDelete(f) ==
    Complete("delete", [f |-> f], delete(f), {fullPath(f)}, EndUploads({fullPath(f)}))

\* No list generator is being consumed.
IdleList ==
    [pc |-> "idle", driver |-> None, prefix |-> None, listing |-> <<>>,
     env |-> FALSE, rest |-> <<>>, yielded |-> <<>>, trace |-> <<>>]

\* The arguments of the list call being consumed and the answer the backend
\* gave it, as `last` reports them; driver is None for this driver.
ListArgs(g) ==
    [driver |-> g.driver, prefix |-> g.prefix, listing |-> g.listing, env |-> g.env]

\* list(prefix): the generator is created; no line of the body has run and
\* nothing has been asked of the backend.
ListCall(driver, prefixArg) ==
    /\ ls.pc = "idle"
    /\ ls' = [IdleList EXCEPT !.pc = "start", !.driver = driver, !.prefix = prefixArg]
    /\ last' = NoOp
    /\ UNCHANGED <<root, cwd, store, net, wc, up>>

\* The consumer's next() has run the body to its next stop, with result r.  A
\* yield hands one path over and suspends the generator; a return or a throw
\* ends the call, `last` then reporting every path it delivered.
ListStep(r, listing, env) ==
    LET g == [ls EXCEPT !.listing = listing, !.env = env, !.trace = @ \o r.trace]
    IN /\ UNCHANGED <<root, cwd, store, net, wc, up>>
       /\ IF r.kind = "yield"
          THEN /\ ls' = [g EXCEPT !.pc = "loop", !.rest = r.rest,
                                  !.yielded = Append(@, r.value)]
               /\ last' = Done("listYield", ListArgs(g), g.trace, TRUE, r.value)
          ELSE /\ ls' = IdleList
               /\ last' = Done("list", ListArgs(g), g.trace, r.kind = "return",
                               IF r.kind = "return" THEN g.yielded ELSE r.value)

\* The first next(): lines 85-89 and the loop up to the first yield.
ListFetch(listing, env) ==
    /\ ls.pc = "start"
    /\ ls.driver = None
    /\ ListStep(listResume(ls.pc, ls.prefix, ls.rest, Wrap(env, AsArray(listing))),
                listing, env)

\* A later next(): the loop from the last yield to the next one, or to its end.
ListNext ==
    /\ ls.pc = "loop"
    /\ ls.driver = None
    /\ ListStep(listResume(ls.pc, ls.prefix, ls.rest, Wrap(ls.env, AsArray(ls.listing))),
                ls.listing, ls.env)

CallCreateChunkedUpload(f, ctx) ==
    Complete("createChunkedUpload",
             [f |-> f, context |-> ctx, prior |-> store[fullPath(f)]],
             createChunkedUpload(f, ctx), {fullPath(f)},
             [up EXCEPT ![fullPath(f)] =
                 [valid |-> InFlight(fullPath(f)) = {}, data |-> <<>>]])

CallDeleteChunkedUpload(f, ctx) ==
    Complete("deleteChunkedUpload", [f |-> f, prior |-> store[fullPath(f)]],
             deleteChunkedUpload(f, ctx), {fullPath(f)}, EndUploads({fullPath(f)}))

CallFinishChunkedUpload(f, ctx) ==
    Complete("finishChunkedUpload", [f |-> f],
             finishChunkedUpload(f, ctx), {}, up)

\* typeof existing === 'object' && existing !== null && 'data' in existing
\*     ? existing.data : existing
UnwrapRead(existing) ==
    IF existing.t # "string" /\ "data" \in DOMAIN existing
    THEN existing.data ELSE existing

\* writeChunk, lines 118-130: the whole-file read's answer as a Buffer.
ExistingBuffer(existing) == ToBuffer(UnwrapRead(existing))

\* The arguments and the read of a writeChunk call, as `last` reports them.
ChunkArgs(p, filepath, content, offset, object, over, reissue) ==
    [p |-> p, f |-> filepath, content |-> content, offset |-> offset,
     object |-> object, over |-> over, reissue |-> reissue]

\* The call being issued repeats, with no other call in flight, the writeChunk
\* that has just resolved (same path, bytes and offset, the offset within the
\* object that call read): the size that call returned.
Reissue(filepath, content, offset) ==
    IF /\ AllIdle
       /\ last.op = "writeChunk" /\ last.ok
       /\ last.args.f = filepath
       /\ last.args.offset = offset
       /\ StreamBytes(last.args.content) = StreamBytes(content)
       /\ offset <= Len(last.args.object)
    THEN Some(last.ret)
    ELSE None

\* writeChunk, line 109-115: caller p invokes writeChunk; the whole-object read
\* is issued and p is suspended on it.
writeChunkCall(p, filepath, content, offset) ==
    /\ wc[p].pc = "idle"
    /\ offset + Len(StreamBytes(content)) <= MaxLen
    /\ wc' = [wc EXCEPT ![p] =
                [IdleCall EXCEPT !.pc = "read", !.f = filepath,
                                 !.offset = offset, !.content = content,
                                 !.reissue = Reissue(filepath, content, offset)]]
    /\ up' = IF InFlight(fullPath(filepath)) \ {p} # {}
             THEN EndUploads({fullPath(filepath)}) ELSE up
    /\ last' = NoOp
    /\ UNCHANGED <<root, cwd, net, store, ls>>

\* Mutant of writeChunkRead: the driver keeps the bytes uploaded so far and
\* takes them, not the object the backend returns, as the existing content.
writeChunkRead_Cached(p, shape) ==
    LET remotePath == fullPath(wc[p].f) IN
    /\ wc[p].pc = "read"
    /\ UNCHANGED <<root, cwd, net, store, up, ls>>
    /\ IF ~Reachable(remotePath)
       THEN /\ last' = Done("writeChunk",
                            ChunkArgs(p, wc[p].f, wc[p].content, wc[p].offset,
                                      <<>>, NotOvertaken, wc[p].reissue),
                            <<Call("getFileContents", <<remotePath, "binary">>, FALSE)>>,
                            FALSE, BackendError(remotePath))
            /\ wc' = [wc EXCEPT ![p] = IdleCall]
       ELSE /\ CanDeliver(shape[2], store[remotePath].data)
            /\ wc' = [wc EXCEPT ![p].pc = "drain",
                                ![p].object = store[remotePath].data,
                                ![p].existing = up[remotePath].data,
                                ![p].trace = <<Call("getFileContents",
                                                    <<remotePath, "binary">>, TRUE)>>,
                                ![p].over = NotOvertaken]
            /\ last' = NoOp

\* Mutant of writeChunkRead: an object that is not there is read as an empty
\* one, so that writeChunk starts the upload itself.
writeChunkRead_MissingAsEmpty(p, shape) ==
    LET remotePath == fullPath(wc[p].f)
        data == IF store[remotePath].exists THEN store[remotePath].data ELSE <<>>
    IN
    /\ wc[p].pc = "read"
    /\ UNCHANGED <<root, cwd, net, store, up, ls>>
    /\ IF net # "up"
       THEN /\ last' = Done("writeChunk",
                            ChunkArgs(p, wc[p].f, wc[p].content, wc[p].offset,
                                      <<>>, NotOvertaken, wc[p].reissue),
                            <<Call("getFileContents", <<remotePath, "binary">>, FALSE)>>,
                            FALSE, BackendError(remotePath))
            /\ wc' = [wc EXCEPT ![p] = IdleCall]
       ELSE /\ CanDeliver(shape[2], data)
            /\ LET payload == Deliver(shape[2], data)
                   existing == IF shape[1] THEN [t |-> "object", data |-> payload]
                               ELSE payload
               IN wc' = [wc EXCEPT ![p].pc = "drain",
                                   ![p].object = data,
                                   ![p].existing = ExistingBuffer(existing),
                                   ![p].trace = <<Call("getFileContents",
                                                       <<remotePath, "binary">>, TRUE)>>,
                                   ![p].over = NotOvertaken]
            /\ last' = NoOp

\* writeChunk, lines 116-130: the backend answers the whole-object read, in
\* one of the forms `shape`, and the answer is normalised to a Buffer.  A failed
\* read ends the call; otherwise p goes on to drain the stream.
writeChunkRead(p, shape) ==
    LET remotePath == fullPath(wc[p].f) IN
    /\ wc[p].pc = "read"
    /\ UNCHANGED <<root, cwd, net, store, up, ls>>
    /\ IF ~Reachable(remotePath)
       THEN /\ last' = Done("writeChunk",
                            ChunkArgs(p, wc[p].f, wc[p].content, wc[p].offset,
                                      <<>>, NotOvertaken, wc[p].reissue),
                            <<Call("getFileContents", <<remotePath, "binary">>, FALSE)>>,
                            FALSE, BackendError(remotePath))
            /\ wc' = [wc EXCEPT ![p] = IdleCall]
       ELSE /\ CanDeliver(shape[2], store[remotePath].data)
            /\ LET payload == Deliver(shape[2], store[remotePath].data)
                   existing == IF shape[1] THEN [t |-> "object", data |-> payload]
                               ELSE payload
               IN wc' = [wc EXCEPT ![p].pc = "drain",
                                   ![p].object = store[remotePath].data,
                                   ![p].existing = ExistingBuffer(existing),
                                   ![p].trace = <<Call("getFileContents",
                                                       <<remotePath, "binary">>, TRUE)>>,
                                   ![p].over = NotOvertaken]
            /\ last' = NoOp

\* Mutant of writeChunkDrain: each fragment is put in front of those received
\* before it.
writeChunkDrain_Prepend(p, kind) ==
    /\ wc[p].pc = "drain"
    /\ wc[p].pos < Len(wc[p].content)
    /\ CanDeliver(kind, wc[p].content[wc[p].pos + 1])
    /\ LET chunk == Deliver(kind, wc[p].content[wc[p].pos + 1])
       IN wc' = [wc EXCEPT ![p].chunks = <<BufferFrom(chunk)>> \o @,
                           ![p].pos = @ + 1]
    /\ last' = NoOp
    /\ UNCHANGED <<root, cwd, net, store, up, ls>>

\* writeChunk, lines 132-135: one turn of `for await (const chunk of content)`.
writeChunkDrain(p, kind) ==
    /\ wc[p].pc = "drain"
    /\ wc[p].pos < Len(wc[p].content)
    /\ CanDeliver(kind, wc[p].content[wc[p].pos + 1])
    /\ LET chunk == Deliver(kind, wc[p].content[wc[p].pos + 1])
       IN wc' = [wc EXCEPT ![p].chunks = Append(@, BufferFrom(chunk)),
                           ![p].pos = @ + 1]
    /\ last' = NoOp
    /\ UNCHANGED <<root, cwd, net, store, up, ls>>

\* Mutant of writeChunkPut: the value returned is offset plus the chunk's
\* length instead of the length of the object written.
writeChunkPut_ReturnsOffsetEnd(p) ==
    /\ wc[p].pc = "drain"
    /\ wc[p].pos = Len(wc[p].content)
    /\ LET remotePath == fullPath(wc[p].f)
           newContent == NewContent(wc[p].existing, wc[p].offset, wc[p].chunks)
           ok == net = "up"
       IN /\ last' = Done("writeChunk",
                          ChunkArgs(p, wc[p].f, wc[p].content, wc[p].offset,
                                    wc[p].object, wc[p].over, wc[p].reissue),
                          Append(wc[p].trace,
                                 Call("putFileContents", <<remotePath, newContent>>, ok)),
                          ok,
                          IF ok THEN wc[p].offset + Len(BufferConcat(wc[p].chunks))
                          ELSE BackendError(remotePath))
          /\ store' = IF ok THEN [store EXCEPT ![remotePath] = File(newContent)]
                      ELSE store
          /\ wc' = [q \in Procs |->
                      IF q = p THEN IdleCall
                      ELSE IF ok
                           THEN Overtake({remotePath},
                                         Overtaken("writeChunk", wc[p].offset,
                                                   StreamBytes(wc[p].content)))[q]
                      ELSE wc[q]]
          /\ up' = IF ~ok THEN up
                   ELSE IF up[remotePath].valid
                           /\ wc[p].offset = Len(up[remotePath].data)
                        THEN [up EXCEPT ![remotePath].data =
                                 @ \o StreamBytes(wc[p].content)]
                   ELSE EndUploads({remotePath})
    /\ UNCHANGED <<root, cwd, net, ls>>

\* Mutant of writeChunkPut: the write is conditional on the object still being
\* there, and fails as not found once it has been deleted.
writeChunkPut_IfPresent(p) ==
    /\ wc[p].pc = "drain"
    /\ wc[p].pos = Len(wc[p].content)
    /\ LET remotePath == fullPath(wc[p].f)
           newContent == NewContent(wc[p].existing, wc[p].offset, wc[p].chunks)
           ok == Reachable(remotePath)
       IN /\ last' = Done("writeChunk",
                          ChunkArgs(p, wc[p].f, wc[p].content, wc[p].offset,
                                    wc[p].object, wc[p].over, wc[p].reissue),
                          Append(wc[p].trace,
                                 Call("putFileContents", <<remotePath, newContent>>, ok)),
                          ok,
                          IF ok THEN Len(newContent) ELSE BackendError(remotePath))
          /\ store' = IF ok THEN [store EXCEPT ![remotePath] = File(newContent)]
                      ELSE store
          /\ wc' = [q \in Procs |->
                      IF q = p THEN IdleCall
                      ELSE IF ok
                           THEN Overtake({remotePath},
                                         Overtaken("writeChunk", wc[p].offset,
                                                   StreamBytes(wc[p].content)))[q]
                      ELSE wc[q]]
          /\ up' = IF ~ok THEN up
                   ELSE IF up[remotePath].valid
                           /\ wc[p].offset = Len(up[remotePath].data)
                        THEN [up EXCEPT ![remotePath].data =
                                 @ \o StreamBytes(wc[p].content)]
                   ELSE EndUploads({remotePath})
    /\ UNCHANGED <<root, cwd, net, ls>>

\* writeChunk, lines 137-144: the stream has ended; build the new object,
\* write it whole, return its length.
writeChunkPut(p) ==
    /\ wc[p].pc = "drain"
    /\ wc[p].pos = Len(wc[p].content)
    /\ LET remotePath == fullPath(wc[p].f)
           newContent == NewContent(wc[p].existing, wc[p].offset, wc[p].chunks)
           ok == net = "up"
       IN /\ last' = Done("writeChunk",
                          ChunkArgs(p, wc[p].f, wc[p].content, wc[p].offset,
                                    wc[p].object, wc[p].over, wc[p].reissue),
                          Append(wc[p].trace,
                                 Call("putFileContents", <<remotePath, newContent>>, ok)),
                          ok,
                          IF ok THEN Len(newContent) ELSE BackendError(remotePath))
          /\ store' = IF ok THEN [store EXCEPT ![remotePath] = File(newContent)]
                      ELSE store
          /\ wc' = [q \in Procs |->
                      IF q = p THEN IdleCall
                      ELSE IF ok
                           THEN Overtake({remotePath},
                                         Overtaken("writeChunk", wc[p].offset,
                                                   StreamBytes(wc[p].content)))[q]
                      ELSE wc[q]]
          /\ up' = IF ~ok THEN up
                   ELSE IF up[remotePath].valid
                           /\ wc[p].offset = Len(up[remotePath].data)
                        THEN [up EXCEPT ![remotePath].data =
                                 @ \o StreamBytes(wc[p].content)]
                   ELSE EndUploads({remotePath})
    /\ UNCHANGED <<root, cwd, net, ls>>

\* The connection to the backend breaks, or comes back.
NetDown ==
    /\ net = "up"
    /\ net' = "down"
    /\ last' = NoOp
    /\ UNCHANGED <<root, cwd, store, wc, up, ls>>

NetUp ==
    /\ net = "down"
    /\ net' = "up"
    /\ last' = NoOp
    /\ UNCHANGED <<root, cwd, store, wc, up, ls>>

\* The process changes its working directory (process.chdir), which
\* path.relative reads each time it resolves a relative path.
Chdir(dir) ==
    /\ cwd # dir
    /\ cwd' = dir
    /\ last' = NoOp
    /\ UNCHANGED <<root, store, net, wc, up, ls>>

\* --------------------------------------------------------- specification

InitWith(cfgRoots, cwds) ==
    /\ \E cfgRoot \in cfgRoots : root = ConfigRoot(cfgRoot)
    /\ cwd \in cwds
    /\ store = [path \in {fullPath(f) : f \in Files} |-> Missing]
    /\ net = "up"
    /\ wc = [p \in Procs |-> IdleCall]
    /\ last = NoOp
    /\ up = [path \in {fullPath(f) : f \in Files} |-> NoUpload]
    /\ ls = IdleList

Init == InitWith({Some(<<"/", "r", "/">>)}, {<<"/">>})

\* One caller: each operation is awaited before the next is issued, and the
\* connection may break or recover between any two backend calls.
Next ==
    \/ AllIdle /\ \E f \in Files, shape \in StatShapes : CallStat(f, shape)
    \/ AllIdle /\ \E f \in Files : CallExists(f)
    \/ AllIdle /\ \E src \in Files, dest \in Files : CallMove(src, dest)
    \/ AllIdle /\ \E src \in Files, dest \in Files : CallCopy(src, dest)
    \/ AllIdle /\ \E f \in Files, content \in Streams : CallWrite(f, content)
    \/ AllIdle /\ \E f \in Files : CallDelete(f)
    \/ AllIdle /\ \E f \in Files, ctx \in Contexts : CallCreateChunkedUpload(f, ctx)
    \/ AllIdle /\ \E f \in Files, ctx \in Contexts : CallDeleteChunkedUpload(f, ctx)
    \/ AllIdle /\ \E f \in Files, ctx \in Contexts : CallFinishChunkedUpload(f, ctx)
    \/ \E f \in Files, content \in Streams, offset \in Offsets :
          writeChunkCall(1, f, content, offset)
    \/ \E shape \in ReadShapes : writeChunkRead(1, shape)
    \/ \E kind \in PayloadKinds : writeChunkDrain(1, kind)
    \/ writeChunkPut(1)
    \/ NetDown
    \/ NetUp

Spec == Init /\ [][Next]_vars

\* ------------------------------------------------ concurrent callers

\* Two callers write chunks to the same upload while a third party creates,
\* deletes and probes it: no operation waits for another.
RaceFile == <<"f">>
RaceStreams == {<<<<97>>>>, <<<<98>>>>}
RaceOffsets == {0, 1}

NextRace ==
    \/ \E p \in Procs, content \in RaceStreams, offset \in RaceOffsets :
          writeChunkCall(p, RaceFile, content, offset)
    \/ \E p \in Procs, shape \in ReadShapes : writeChunkRead(p, shape)
    \/ \E p \in Procs, kind \in PayloadKinds : writeChunkDrain(p, kind)
    \/ \E p \in Procs : writeChunkPut(p)
    \/ CallCreateChunkedUpload(RaceFile, "ctx1")
    \/ CallDeleteChunkedUpload(RaceFile, "ctx1")
    \/ CallExists(RaceFile)

SpecRace == Init /\ [][NextRace]_vars

\* ------------------------------------------- per-call (stateless) paths

\* Configured roots and working directories of the path conversions explored.
PureRoots ==
    {None, Some(<<>>), Some(<<"/">>), Some(<<"/", "r">>), Some(<<"/", "r", "/">>),
     Some(<<"r">>), Some(<<"/", "/">>), Some(<<"/", "a", "/", "r">>),
     Some(<<"/", "r", "/", ".", ".">>), Some(<<".">>)}
Cwds == {<<"/">>, <<"/", "w">>}
PathChars == {"/", ".", "r"}
Paths == SeqsUpTo(PathChars, MaxPath)

\* A caller path converted to its backend path and back, as list converts
\* the filenames of a listing.
RoundTrip(p) == RelativeToRoot(fullPath(p))

CallRoundTrip(p) ==
    /\ last' = Done("roundtrip", [p |-> p], <<>>, TRUE, RoundTrip(p))
    /\ UNCHANGED <<root, cwd, store, net, wc, up, ls>>

InitPure ==
    /\ InitWith(PureRoots, Cwds)

\* Operations whose outcome depends on their arguments, the configuration and
\* the connection only: each is applied once to every input.
Fresh == last = NoOp

NextPure ==
    \/ Fresh /\ \E p \in Paths : CallRoundTrip(p)
    \/ Fresh /\ \E f \in Files, o \in ReadOptions : CallRead(f, o)
    \/ Fresh /\ NetDown

SpecPure == InitPure /\ [][NextPure]_vars

\* ------------------------------------------------- a listing consumed

\* One consumer iterates list(prefix) while the rest of the program goes on:
\* between two next() calls other calls on the driver complete, the connection
\* breaks or recovers, and the working directory changes.
ListRoots == {None, Some(<<>>), Some(<<"/", "r", "/">>), Some(<<"r">>)}

InitList == InitWith(ListRoots, Cwds)

NextList ==
    \/ \E pre \in ListPrefixes : ListCall(None, pre)
    \/ ls.pc = "start" /\ \E l \in Listings, env \in BOOLEAN : ListFetch(l, env)
    \/ ListNext
    \/ ls.pc = "loop" /\ CallWrite(<<"/", "g">>, <<<<97>>>>)
    \/ ls.pc = "loop" /\ CallDelete(<<"/", "g">>)
    \/ NetDown
    \/ NetUp
    \/ \E dir \in Cwds : Chdir(dir)

SpecList == InitList /\ [][NextList]_vars

\* ------------------------------------------- the plain driver (webdav.ts)
\* src/src/webdav.ts: the driver without the chunked-upload operations.  An
\* instance is the record of its fields; `self` is the instance a method is
\* called on.  Both drivers talk to the same backend through the same client
\* library and the same node:path.

\* Mutant of plain_DriverWebDAV: `config.root || '/'`, an empty root replaced
\* by the default as an omitted one is.
plain_DriverWebDAV_OrDefault(cfgRoot) ==
    [root |-> IF cfgRoot = None \/ cfgRoot[1] = <<>> THEN <<"/">> ELSE cfgRoot[1]]

\* constructor: this.root = config.root ?? '/'
plain_DriverWebDAV(cfgRoot) ==
    [root |-> IF cfgRoot = None THEN <<"/">> ELSE cfgRoot[1]]

\* fullPath(filepath)
plain_fullPath(self, filepath) ==
    StripTrailingSlash(self.root) \o <<"/">> \o StripLeadingSlash(filepath)

\* read(filepath, options)
plain_read(self, filepath, options) ==
    LET remotePath == plain_fullPath(self, filepath) IN
    IF options # None /\ "range" \in DOMAIN options[1]
    THEN LET start == options[1].range.start
             end == options[1].range.end
             headers == [Range |-> <<"b", "y", "t", "e", "s", "=">>
                                   \o NumToString(start) \o <<"-">>
                                   \o (IF end = None THEN <<>> ELSE NumToString(end[1]))]
         IN R(<<Call("createReadStream", <<remotePath, Some(headers)>>, TRUE)>>,
              TRUE, "stream", store)
    ELSE R(<<Call("createReadStream", <<remotePath, None>>, TRUE)>>,
           TRUE, "stream", store)

\* stat(filepath)
plain_stat(self, filepath, shape) ==
    LET remotePath == plain_fullPath(self, filepath) IN
    IF ~Reachable(remotePath)
    THEN R(<<Call("stat", <<remotePath>>, FALSE)>>, FALSE,
           BackendError(remotePath), store)
    ELSE LET statRes == Wrap(shape.env, StatEntry(remotePath, shape.size, shape.lastmod))
             fileStat == IF "data" \in DOMAIN statRes THEN statRes.data ELSE statRes
         IN R(<<Call("stat", <<remotePath>>, TRUE)>>, TRUE,
              [size |-> IF "size" \in DOMAIN fileStat THEN fileStat.size ELSE 0,
               modified |-> IF "lastmod" \in DOMAIN fileStat
                            THEN fileStat.lastmod ELSE "now"],
              store)

\* exists(filepath)
plain_exists(self, filepath) ==
    LET remotePath == plain_fullPath(self, filepath) IN
    IF Reachable(remotePath)
    THEN R(<<Call("stat", <<remotePath>>, TRUE)>>, TRUE, TRUE, store)
    ELSE R(<<Call("stat", <<remotePath>>, FALSE)>>, TRUE, FALSE, store)

\* move(src, dest)
plain_move(self, src, dest) ==
    LET s == plain_fullPath(self, src)
        d == plain_fullPath(self, dest)
    IN IF ~Reachable(s)
       THEN R(<<Call("moveFile", <<s, d>>, FALSE)>>, FALSE, BackendError(s), store)
       ELSE R(<<Call("moveFile", <<s, d>>, TRUE)>>, TRUE, None,
              [store EXCEPT ![d] = store[s], ![s] = Missing])

\* copy(src, dest)
plain_copy(self, src, dest) ==
    LET s == plain_fullPath(self, src)
        d == plain_fullPath(self, dest)
    IN IF ~Reachable(s)
       THEN R(<<Call("copyFile", <<s, d>>, FALSE)>>, FALSE, BackendError(s), store)
       ELSE R(<<Call("copyFile", <<s, d>>, TRUE)>>, TRUE, None,
              [store EXCEPT ![d] = store[s]])

\* write(filepath, content)
plain_write(self, filepath, content) ==
    LET remotePath == plain_fullPath(self, filepath) IN
    IF net # "up"
    THEN R(<<Call("putFileContents", <<remotePath, StreamBytes(content)>>, FALSE)>>,
           FALSE, BackendError(remotePath), store)
    ELSE R(<<Call("putFileContents", <<remotePath, StreamBytes(content)>>, TRUE)>>,
           TRUE, None,
           [store EXCEPT ![remotePath] = File(StreamBytes(content))])

\* delete(filepath)
plain_delete(self, filepath) ==
    LET remotePath == plain_fullPath(self, filepath) IN
    IF ~Reachable(remotePath)
    THEN R(<<Call("deleteFile", <<remotePath>>, FALSE)>>, FALSE,
           BackendError(remotePath), store)
    ELSE R(<<Call("deleteFile", <<remotePath>>, TRUE)>>, TRUE, None,
           [store EXCEPT ![remotePath] = Missing])

\* The loop of list from the entry it stands at, up to the next entry that
\* passes the test.
RECURSIVE plain_NextFile(_)
plain_NextFile(contents) ==
    IF contents = <<>> THEN <<>>
    ELSE LET item == Head(contents) IN
         IF item.type = "file" /\ "filename" \in DOMAIN item
         THEN contents
         ELSE plain_NextFile(Tail(contents))

\* One resumption of the generator list(prefix = '').
plain_listResume(self, pc, prefixArg, rest, res) ==
    LET prefix == IF prefixArg = None THEN <<>> ELSE prefixArg[1]
        remotePrefix == plain_fullPath(self, prefix)
        fetch(ok) == Call("getDirectoryContents", <<remotePrefix, "deep">>, ok)
        loop(contents, trace) ==
            LET at == plain_NextFile(contents) IN
            IF at = <<>> THEN Resumed("return", trace, None, <<>>)
            ELSE LET relativePath == Relative(self.root, Head(at).filename)
                 IN Resumed("yield", trace, StripLeadingSlashes(relativePath), Tail(at))
    IN IF pc = "start"
       THEN IF net # "up"
            THEN Resumed("throw", <<fetch(FALSE)>>, "transport", <<>>)
            ELSE loop(IF "data" \in DOMAIN res THEN res.data.v ELSE res.v,
                      <<fetch(TRUE)>>)
       ELSE loop(rest, <<>>)

\* The plain drivers constructed from a configuration that gives the
\* chunked-upload driver its root.
SameConfig == {plain_DriverWebDAV(cfgRoot) : cfgRoot \in {c \in PureRoots : ConfigRoot(c) = root}}

\* A base-contract call made on a plain driver.
PlainCall(op, args, r) ==
    /\ last' = Done(op, args, r.trace, r.ok, r.ret)
    /\ store' = r.store
    /\ UNCHANGED <<root, cwd, net, wc, up, ls>>

PlainCallRead(self, f, o) ==
    PlainCall("read", [driver |-> self, f |-> f, options |-> o], plain_read(self, f, o))

PlainCallStat(self, f, shape) ==
    PlainCall("stat", [driver |-> self, f |-> f, shape |-> shape],
              plain_stat(self, f, shape))

PlainCallExists(self, f) ==
    PlainCall("exists", [driver |-> self, f |-> f], plain_exists(self, f))

PlainCallMove(self, src, dest) ==
    /\ plain_fullPath(self, src) # plain_fullPath(self, dest)
    /\ PlainCall("move", [driver |-> self, src |-> src, dest |-> dest],
                 plain_move(self, src, dest))

PlainCallCopy(self, src, dest) ==
    /\ plain_fullPath(self, src) # plain_fullPath(self, dest)
    /\ PlainCall("copy", [driver |-> self, src |-> src, dest |-> dest],
                 plain_copy(self, src, dest))

PlainCallWrite(self, f, content) ==
    PlainCall("write", [driver |-> self, f |-> f, content |-> content],
              plain_write(self, f, content))

PlainCallDelete(self, f) ==
    PlainCall("delete", [driver |-> self, f |-> f], plain_delete(self, f))

\* list(prefix) on a plain driver: the generator is created.
PlainListCall(self, prefixArg) == ListCall(Some(self), prefixArg)

\* The first next() of a listing on a plain driver.
PlainListFetch(listing, env) ==
    /\ ls.pc = "start"
    /\ ls.driver # None
    /\ ListStep(plain_listResume(ls.driver[1], ls.pc, ls.prefix, ls.rest,
                                 Wrap(env, AsArray(listing))),
                listing, env)

\* A later next() of a listing on a plain driver.
PlainListNext ==
    /\ ls.pc = "loop"
    /\ ls.driver # None
    /\ ListStep(plain_listResume(ls.driver[1], ls.pc, ls.prefix, ls.rest,
                                 Wrap(ls.env, AsArray(ls.listing))),
                ls.listing, ls.env)

\* Both drivers on one backend state: a configuration, a working directory
\* and the remote objects are chosen, then one base-contract call is made on
\* one of the two drivers; a listing is consumed to its end, the connection
\* and the working directory changing under it.
PlainRoots == {None, Some(<<>>), Some(<<"/", "r", "/">>), Some(<<"r">>)}
PlainObjects == {Missing, File(<<>>), File(<<97>>)}
PlainListings == {l \in Listings : Len(l) < MaxList}

InitPlain ==
    /\ \E cfgRoot \in PlainRoots : root = ConfigRoot(cfgRoot)
    /\ cwd \in Cwds
    /\ store \in [{fullPath(f) : f \in Files} -> PlainObjects]
    /\ net = "up"
    /\ wc = [p \in Procs |-> IdleCall]
    /\ last = NoOp
    /\ up = [path \in {fullPath(f) : f \in Files} |-> NoUpload]
    /\ ls = IdleList

\* No call has completed and no listing is being consumed.
Quiet == Fresh /\ ls.pc = "idle"

NextPlain ==
    \/ Quiet /\ \E f \in Files, o \in ReadOptions : CallRead(f, o)
    \/ Quiet /\ \E f \in Files, shape \in StatShapes : CallStat(f, shape)
    \/ Quiet /\ \E f \in Files : CallExists(f)
    \/ Quiet /\ \E src \in Files, dest \in Files : CallMove(src, dest)
    \/ Quiet /\ \E src \in Files, dest \in Files : CallCopy(src, dest)
    \/ Quiet /\ \E f \in Files, content \in Streams : CallWrite(f, content)
    \/ Quiet /\ \E f \in Files : CallDelete(f)
    \/ Quiet /\ \E pre \in ListPrefixes : ListCall(None, pre)
    \/ ls.pc = "start" /\ \E l \in PlainListings, env \in BOOLEAN : ListFetch(l, env)
    \/ ListNext
    \/ Quiet /\ \E self \in SameConfig, f \in Files, o \in ReadOptions :
                  PlainCallRead(self, f, o)
    \/ Quiet /\ \E self \in SameConfig, f \in Files, shape \in StatShapes :
                  PlainCallStat(self, f, shape)
    \/ Quiet /\ \E self \in SameConfig, f \in Files : PlainCallExists(self, f)
    \/ Quiet /\ \E self \in SameConfig, src \in Files, dest \in Files :
                  PlainCallMove(self, src, dest)
    \/ Quiet /\ \E self \in SameConfig, src \in Files, dest \in Files :
                  PlainCallCopy(self, src, dest)
    \/ Quiet /\ \E self \in SameConfig, f \in Files, content \in Streams :
                  PlainCallWrite(self, f, content)
    \/ Quiet /\ \E self \in SameConfig, f \in Files : PlainCallDelete(self, f)
    \/ Quiet /\ \E self \in SameConfig, pre \in ListPrefixes : PlainListCall(self, pre)
    \/ ls.pc = "start" /\ \E l \in PlainListings, env \in BOOLEAN :
          PlainListFetch(l, env)
    \/ PlainListNext
    \/ (Fresh \/ ls.pc # "idle") /\ NetDown
    \/ (Fresh \/ ls.pc # "idle") /\ \E dir \in Cwds : Chdir(dir)

SpecPlain == InitPlain /\ [][NextPlain]_vars

\* ================================================================ claims

\* The latest step completed a writeChunk call that resolved with a size.
ChunkWritten == last.op = "writeChunk" /\ last.ok
\* The remote path, object, chunk bytes and offset of that call.
ChunkPath == fullPath(last.args.f)
ChunkObject == store[ChunkPath].data
ChunkBytes == StreamBytes(last.args.content)
ChunkOffset == last.args.offset

\* C1: after createChunkedUpload, when chunks c1..ck have been written by
\* sequential writeChunk calls, each at the offset that is the sum of the
\* lengths written before it, the object is c1 ++ ... ++ ck and the k-th call
\* returns len(c1) + ... + len(ck).
C1_SequentialChunksConcatenate ==
    (ChunkWritten /\ up[ChunkPath].valid) =>
        /\ store[ChunkPath] = File(up[ChunkPath].data)
        /\ last.ret = Len(up[ChunkPath].data)

\* A second, non-empty chunk has been written behind a non-empty first one.
C1_Witness ==
    /\ ChunkWritten
    /\ up[ChunkPath].valid
    /\ ChunkOffset > 0
    /\ Len(ChunkBytes) > 0
    /\ last.ret = ChunkOffset + Len(ChunkBytes)

\* C2: writeChunk overwrites from offset: with 0 <= offset <= len(E) a
\* successful call leaves E[0, offset) ++ c, every byte of E at or after offset
\* gone; at offset 0 over a non-empty E the object is exactly c and the call
\* returns len(c).
C2_OverwriteFromOffset ==
    (ChunkWritten /\ ChunkOffset <= Len(last.args.object)) =>
        /\ Len(ChunkObject) = ChunkOffset + Len(ChunkBytes)
        /\ \A i \in 1..ChunkOffset : ChunkObject[i] = last.args.object[i]
        /\ \A i \in 1..Len(ChunkBytes) : ChunkObject[ChunkOffset + i] = ChunkBytes[i]
        /\ (ChunkOffset = 0 /\ Len(last.args.object) > 0) =>
              (ChunkObject = ChunkBytes /\ last.ret = Len(ChunkBytes))

\* A chunk written inside the object, shorter than the bytes it replaced.
C2_Witness ==
    /\ ChunkWritten
    /\ Len(ChunkBytes) > 0
    /\ ChunkOffset + Len(ChunkBytes) < Len(last.args.object)
    /\ ChunkObject = ChunkBytes

\* C3: after every successful writeChunk, whatever the non-negative offset,
\* the bytes of the object at [offset, offset + len(c)) are the bytes of c.
C3_ChunkLandsAtOffset ==
    ChunkWritten =>
        /\ Len(ChunkObject) >= ChunkOffset + Len(ChunkBytes)
        /\ \A i \in 1..Len(ChunkBytes) : ChunkObject[ChunkOffset + i] = ChunkBytes[i]

\* C5: whatever was at f before (nothing, an empty object, content of any
\* length), a successful createChunkedUpload(f, ctx) leaves an object whose
\* stat size is 0, and returns the context it was given.
C5_CreateLeavesEmptyObject ==
    (last.op = "createChunkedUpload" /\ last.ok) =>
        /\ \A shape \in StatShapes :
              /\ stat(last.args.f, shape).ok
              /\ stat(last.args.f, shape).ret.size = 0
        /\ last.ret = last.args.context

\* An upload created over an object that held content.
C5_Witness ==
    /\ last.op = "createChunkedUpload"
    /\ last.ok
    /\ last.args.prior.exists
    /\ Len(last.args.prior.data) > 0
    /\ store[fullPath(last.args.f)] = File(<<>>)

\* C6: from every point of an upload's life, a successful
\* deleteChunkedUpload(f, ctx) removes the backing object: the next exists(f)
\* returns false.
C6_DeleteRemovesObject ==
    (last.op = "deleteChunkedUpload" /\ last.ok) =>
        /\ ~store[fullPath(last.args.f)].exists
        /\ exists(last.args.f).ok
        /\ exists(last.args.f).ret = FALSE

\* An upload deleted after chunks had been written to it.
C6_Witness ==
    /\ last.op = "deleteChunkedUpload"
    /\ last.ok
    /\ Len(last.args.prior.data) > 0
    /\ ~store[fullPath(last.args.f)].exists

\* C7: exists(f) never raises; it returns true exactly when stat(f) would
\* not fail in the same backend state, and false for every failure of the
\* backend stat, a not-found as well as a broken connection.
C7_ExistsIffStatSucceeds ==
    last.op = "exists" =>
        /\ last.ok
        /\ last.ret \in BOOLEAN
        /\ \A shape \in StatShapes :
              last.ret = stat(last.args.f, shape).ok

\* exists answered false for an object that is there, over a broken connection.
C7_Witness ==
    /\ last.op = "exists"
    /\ last.ok
    /\ last.ret = FALSE
    /\ net = "down"
    /\ store[fullPath(last.args.f)].exists

\* The backend methods each single-call operation issues.
MethodOf(op) ==
    CASE op = "move" -> "moveFile"
      [] op = "copy" -> "copyFile"
      [] op = "delete" -> "deleteFile"
      [] op = "write" -> "putFileContents"

\* C10: a failed backend call is one attempt, surfaced without retry.  A
\* writeChunk whose read fails issues no write and leaves the store as it
\* was; one whose write fails raises the error and returns no size; move, copy,
\* delete and write issue exactly one backend call each.
C10_Step ==
    /\ (last'.op = "writeChunk" /\ ~last'.ok) =>
          /\ store' = store
          /\ last'.ret \in {"transport", "notfound"}
          /\ \/ /\ Len(last'.trace) = 1
                /\ last'.trace[1].m = "getFileContents"
                /\ ~last'.trace[1].ok
             \/ /\ Len(last'.trace) = 2
                /\ last'.trace[1].m = "getFileContents"
                /\ last'.trace[1].ok
                /\ last'.trace[2].m = "putFileContents"
                /\ ~last'.trace[2].ok
    /\ (last'.op \in {"move", "copy", "delete", "write"}) =>
          /\ Len(last'.trace) = 1
          /\ last'.trace[1].m = MethodOf(last'.op)
          /\ last'.ok = last'.trace[1].ok
          /\ ~last'.ok => store' = store
    /\ \A i \in 1..(Len(last'.trace) - 1) : last'.trace[i].ok
    /\ (last'.op # "exists" /\ \E i \in 1..Len(last'.trace) : ~last'.trace[i].ok)
          => (~last'.ok /\ store' = store)
C10_SingleAttempt == [][C10_Step]_vars

\* A writeChunk whose read succeeded and whose write failed.
C10_Witness ==
    /\ last.op = "writeChunk"
    /\ ~last.ok
    /\ Len(last.trace) = 2
    /\ last.ret = "transport"

\* The first n bytes of b (all of b when it is shorter).
Prefix(b, n) == [i \in 1..Min(n, Len(b)) |-> b[i]]

\* C4: writeChunk calls on one path that overlap in time race.  Whatever the
\* interleaving, the object after a successful write is the buffer that call
\* computed from its own, possibly stale, read; an interleaving exists in which
\* both calls succeed and the data of the one that wrote first is lost.
C4_LastWriterWins ==
    ChunkWritten =>
        /\ ChunkObject = Prefix(last.args.object, ChunkOffset) \o ChunkBytes
        /\ last.ret = Len(ChunkObject)

\* Both calls returned a size, the second one's write landed on top of the
\* first one's, and the first one's chunk is not in the object.
C4_Witness ==
    /\ ChunkWritten
    /\ last.args.over.op = "writeChunk"
    /\ Len(last.args.over.data) > 0
    /\ LET o == last.args.over.offset
           d == last.args.over.data
       IN \/ Len(ChunkObject) < o + Len(d)
          \/ \E i \in 1..Len(d) : ChunkObject[o + i] # d[i]

\* The entries of the listing that are files.
IsFileEntry(item) == item.type = "file"
FileEntries(listing) == SelectSeq(listing, IsFileEntry)

\* C8: for every listing the backend returns, enveloped or plain, list yields
\* one path per file entry and none for a directory, in the backend's order:
\* the k-th path delivered is the filename of the k-th file entry made relative
\* to root, as path.relative gives it when that entry is reached, without a
\* leading slash; a call consumed to its end has delivered as many paths as
\* there are file entries; the listing is fetched once per call, by the first
\* next(), whatever happens between two paths.
C8_ListYieldsFiles ==
    LET files == FileEntries(last.args.listing) IN
    /\ last.op = "listYield" =>
          LET k == Len(ls.yielded) IN
          /\ k >= 1 /\ k <= Len(files)
          /\ ls.yielded[k] = last.ret
          /\ last.ret = StripLeadingSlashes(Relative(root, files[k].filename))
          /\ last.ret = <<>> \/ last.ret[1] # "/"
          /\ Len(ls.rest) + k <= Len(last.args.listing)
          /\ FileEntries(ls.rest) = SubSeq(files, k + 1, Len(files))
          /\ Len(last.trace) = 1
          /\ last.trace[1].m = "getDirectoryContents"
    /\ (last.op = "list" /\ last.ok) =>
          /\ Len(last.ret) = Len(files)
          /\ Len(last.trace) = 1
          /\ last.trace[1].m = "getDirectoryContents"
    /\ ls.pc = "start" => ls.trace = <<>>
    /\ ls.pc = "loop" => Len(ls.trace) = 1

\* An enveloped listing of two files around a directory, consumed to its end
\* by a call that finished after the connection was lost.
C8_Witness ==
    /\ last.op = "list"
    /\ last.ok
    /\ last.args.env
    /\ Len(last.args.listing) = 3
    /\ last.args.listing[2].type = "directory"
    /\ Len(last.ret) = 2
    /\ last.ret[1] # last.ret[2]
    /\ net = "down"

\* p has no '..' segment.
NoDotDot(p) == \A i \in 1..Len(SplitPath(p)) : SplitPath(p)[i] # <<".", ".">>

\* p, leading slashes aside, is in normal form: no empty, '.' or '..' segment.
PlainPath(p) ==
    LET segs == SplitPath(StripLeadingSlashes(p)) IN
    \/ segs = <<<<>>>>
    \/ \A i \in 1..Len(segs) : segs[i] \notin {<<>>, <<".">>, <<".", ".">>}

\* C9 as stated: for every configured root and every relative path p without
\* '..' segments, fullPath followed by list's conversion returns p, leading
\* slashes aside.
C9_RoundTripAnyPath ==
    (last.op = "roundtrip" /\ NoDotDot(last.args.p)) =>
        last.ret = StripLeadingSlashes(last.args.p)

\* C9 as amended: for every non-empty configured root (or none) and every path
\* p whose segments, leading slashes aside, are neither empty nor '.' nor '..',
\* fullPath followed by list's conversion returns p without its leading slashes.
C9_RoundTripPlainPath ==
    (last.op = "roundtrip" /\ root # <<>> /\ PlainPath(last.args.p)) =>
        last.ret = StripLeadingSlashes(last.args.p)

\* A path of two segments with a leading slash, under a root below '/'.
C9_Witness ==
    /\ last.op = "roundtrip"
    /\ PlainPath(last.args.p)
    /\ Len(Resolve(root)) > 0
    /\ Len(last.args.p) > 0
    /\ last.args.p[1] = "/"
    /\ Len(SplitPath(last.ret)) = 2
    /\ last.ret = Tail(last.args.p)

\* C11: finishChunkedUpload(f, ctx) is a no-op.  The step that completes it
\* issues no backend call, resolves whatever the state of the connection, and
\* leaves every remote object as it was; so after a run of sequential chunk
\* writes the object is still the one the last writeChunk committed (the empty
\* object of create when no chunk was written).
C11_Step ==
    last'.op = "finishChunkedUpload" =>
        /\ last'.trace = <<>>
        /\ last'.ok
        /\ store' = store
        /\ up' = up
        /\ up[fullPath(last'.args.f)].valid =>
              store'[fullPath(last'.args.f)] = File(up[fullPath(last'.args.f)].data)
C11_FinishIsNoOp == [][C11_Step]_vars

\* An upload finished after chunks had been written to it, the object still
\* holding their bytes.
C11_Witness ==
    /\ last.op = "finishChunkedUpload"
    /\ last.ok
    /\ up[fullPath(last.args.f)].valid
    /\ Len(up[fullPath(last.args.f)].data) > 1
    /\ store[fullPath(last.args.f)] = File(up[fullPath(last.args.f)].data)

\* The number a string of decimal digits denotes (-1 when it is no such string).
DigitValue(c) ==
    CASE c = "0" -> 0 [] c = "1" -> 1 [] c = "2" -> 2 [] c = "3" -> 3
      [] c = "4" -> 4 [] c = "5" -> 5 [] c = "6" -> 6 [] c = "7" -> 7
      [] c = "8" -> 8 [] c = "9" -> 9 [] OTHER -> -1
RECURSIVE DecimalValue(_)
DecimalValue(str) ==
    IF str = <<>> THEN -1
    ELSE LET d == DigitValue(str[Len(str)])
             rest == SubSeq(str, 1, Len(str) - 1)
         IN IF d < 0 THEN -1
            ELSE IF rest = <<>> THEN d
            ELSE IF rest[1] = "0" \/ DecimalValue(rest) < 0 THEN -1
            ELSE 10 * DecimalValue(rest) + d

\* The header value is 'bytes=' S '-' E with S the decimal form of start and E
\* the decimal form of end, or nothing when end is absent.
IsRangeOf(header, start, end) ==
    \E k \in 1..Len(header) :
        /\ header[k] = "-"
        /\ k > 6
        /\ SubSeq(header, 1, 6) = <<"b", "y", "t", "e", "s", "=">>
        /\ DecimalValue(SubSeq(header, 7, k - 1)) = start
        /\ IF end = None THEN k = Len(header)
           ELSE DecimalValue(SubSeq(header, k + 1, Len(header))) = end[1]

\* C12: read(f, options) issues one backend read request, for the root-scoped
\* path of f.  With a range it carries the header Range 'bytes=start-end' when
\* end is given (an end of 0 included) and 'bytes=start-' when end is absent;
\* without a range it carries no headers.
C12_ReadRangeHeader ==
    last.op = "read" =>
        /\ last.ok
        /\ Len(last.trace) = 1
        /\ last.trace[1].m = "createReadStream"
        /\ last.trace[1].args[1] = fullPath(last.args.f)
        /\ LET o == last.args.options
               headers == last.trace[1].args[2]
           IN IF o # None /\ "range" \in DOMAIN o[1]
              THEN /\ headers # None
                   /\ DOMAIN headers[1] = {"Range"}
                   /\ IsRangeOf(headers[1].Range, o[1].range.start, o[1].range.end)
              ELSE headers = None

\* A read of the range whose end is 0.
C12_Witness ==
    /\ last.op = "read"
    /\ last.args.options # None
    /\ "range" \in DOMAIN last.args.options[1]
    /\ last.args.options[1].range.end = Some(0)
    /\ last.trace[1].args[2] = Some([Range |-> <<"b", "y", "t", "e", "s", "=", "0", "-", "0">>])

\* C13: with one caller (no operation overlaps another), every writeChunk that
\* resolves returns the byte length of the object stored at f by that call,
\* also when its offset lies beyond the end of the object it read.
C13_ReturnsObjectLength ==
    ChunkWritten =>
        /\ store[ChunkPath].exists
        /\ last.ret = Len(store[ChunkPath].data)

\* A chunk written with an offset beyond the end of the object: the size
\* returned is the object's, smaller than offset plus the chunk's length.
C13_Witness ==
    /\ ChunkWritten
    /\ ChunkOffset > Len(last.args.object)
    /\ Len(ChunkBytes) > 0
    /\ last.ret = Len(ChunkObject)
    /\ last.ret < ChunkOffset + Len(ChunkBytes)

\* The fragments of a stream from the first to the n-th, as one run of bytes.
FirstFragments(content, n) == StreamBytes(SubSeq(content, 1, n))

\* C14: the steps of one writeChunk call are ordered.  While the whole-object
\* read is pending nothing has been taken from the stream and nothing is
\* written; the stream is then drained one fragment at a time, the buffer of
\* chunks holding the fragments received so far in arrival order; the one
\* backend write is issued only from the end of the stream, after the read, and
\* carries every byte of the stream; a call that resolves has issued exactly the
\* read and then the write.
C14_Step ==
    LET c == wc[1]
        d == wc'[1]
    IN /\ c.pc = "idle" => d.pc \in {"idle", "read"}
       /\ c.pc = "read" =>
             /\ c.pos = 0 /\ c.chunks = <<>> /\ c.trace = <<>>
             /\ store' = store
             /\ d.pc \in {"read", "idle", "drain"}
             /\ d.pc = "idle" => (last'.op = "writeChunk" /\ ~last'.ok
                                  /\ Len(last'.trace) = 1)
             /\ d.pc = "drain" =>
                   /\ d.pos = 0 /\ d.chunks = <<>>
                   /\ Len(d.trace) = 1
                   /\ d.trace[1].m = "getFileContents" /\ d.trace[1].ok
       /\ c.pc = "drain" =>
             /\ Len(c.chunks) = c.pos
             /\ BufferConcat(c.chunks) = FirstFragments(c.content, c.pos)
             /\ d.pc \in {"drain", "idle"}
             /\ d.pc = "drain" => (d.pos \in {c.pos, c.pos + 1} /\ store' = store)
             /\ d.pc = "idle" =>
                   /\ c.pos = Len(c.content)
                   /\ last'.op = "writeChunk"
                   /\ Len(last'.trace) = 2
                   /\ last'.trace[1].m = "getFileContents" /\ last'.trace[1].ok
                   /\ last'.trace[2].m = "putFileContents"
                   /\ last'.trace[2].args[2] =
                        Prefix(c.existing, c.offset) \o StreamBytes(c.content)
       /\ (last'.op = "writeChunk" /\ last'.ok) =>
             (c.pc = "drain" /\ c.pos = Len(c.content))
C14_StepsOrdered == [][C14_Step]_vars

\* A stream of two fragments written whole, in the order they arrived, by a
\* call that issued the read and then the write.
C14_Witness ==
    /\ ChunkWritten
    /\ last.args.content = <<<<97>>, <<98>>>>
    /\ ChunkObject = <<97, 98>>
    /\ Len(last.trace) = 2
    /\ last.trace[2].args[2] = <<97, 98>>

\* What the call completed by a step is observed to have done, in the form a
\* handler yields it.
Observed == R(last'.trace, last'.ok, last'.ret, store')

\* What writeChunk(f, content, offset) must do when it completes from the
\* remote store and connection of the moment, computed from nothing else.
ChunkOutcome(f, content, offset, readDone) ==
    LET remotePath == fullPath(f)
        object == store[remotePath].data
        bytes == Prefix(object, offset) \o StreamBytes(content)
        get(ok) == Call("getFileContents", <<remotePath, "binary">>, ok)
        put(ok) == Call("putFileContents", <<remotePath, bytes>>, ok)
    IN IF ~readDone
       THEN R(<<get(FALSE)>>, FALSE, BackendError(remotePath), store)
       ELSE IF net = "up"
            THEN R(<<get(TRUE), put(TRUE)>>, TRUE, Len(bytes),
                   [store EXCEPT ![remotePath] = File(bytes)])
       ELSE R(<<get(TRUE), put(FALSE)>>, FALSE, BackendError(remotePath), store)

\* C15: the driver keeps no upload state between calls.  The configured root
\* never changes, nothing of a writeChunk call outlives it, and the backend
\* calls, the result and the effect of every operation that completes are those
\* its handler computes from the arguments, the root, the remote store and the
\* connection at that moment: the upload history plays no part, so an
\* instance created afresh with the same configuration does the same.
C15_Step ==
    LET a == last'.args IN
    /\ root' = root
    /\ wc'[1].pc = "idle" => wc'[1] = IdleCall
    /\ last'.op = "stat" => \E shape \in StatShapes : Observed = stat(a.f, shape)
    /\ last'.op = "exists" => Observed = exists(a.f)
    /\ last'.op = "move" => Observed = move(a.src, a.dest)
    /\ last'.op = "copy" => Observed = copy(a.src, a.dest)
    /\ last'.op = "write" => \E content \in Streams : Observed = write(a.f, content)
    /\ last'.op = "delete" => Observed = delete(a.f)
    /\ last'.op = "createChunkedUpload" =>
          Observed = createChunkedUpload(a.f, a.context)
    /\ last'.op = "deleteChunkedUpload" =>
          Observed = deleteChunkedUpload(a.f, None)
    /\ last'.op = "finishChunkedUpload" =>
          Observed = finishChunkedUpload(a.f, None)
    /\ last'.op = "writeChunk" =>
          Observed = ChunkOutcome(a.f, a.content, a.offset, wc[1].pc = "drain")
C15_NoUploadState == [][C15_Step]_vars

\* A chunk written inside an object that is not the run of chunks of one
\* upload: the call continued from the object in the store alone.
C15_Witness ==
    /\ ChunkWritten
    /\ ~up[ChunkPath].valid
    /\ ChunkOffset > 0
    /\ Len(last.args.object) >= ChunkOffset
    /\ Len(ChunkBytes) > 0
    /\ ChunkObject = Prefix(last.args.object, ChunkOffset) \o ChunkBytes

\* C16: re-issuing a chunk is idempotent when the offset is within the object.
\* When writeChunk(f, c, offset) with offset <= len(E) has resolved and the
\* same call is made again directly after it, the second call leaves the
\* object the first one committed, E[0, offset) ++ c, and returns the size the
\* first one returned.
C16_ReissueIdempotent ==
    (ChunkWritten /\ last.args.reissue # None) =>
        /\ ChunkObject = last.args.object
        /\ ChunkObject = Prefix(last.args.object, ChunkOffset) \o ChunkBytes
        /\ last.ret = last.args.reissue[1]

\* A non-empty chunk re-issued at an offset inside the object.
C16_Witness ==
    /\ ChunkWritten
    /\ last.args.reissue # None
    /\ ChunkOffset > 0
    /\ Len(ChunkBytes) > 0
    /\ ChunkObject = last.args.object

\* C17: a deleteChunkedUpload(f) that completes while a writeChunk(f) is
\* between its read and its write does not keep the upload deleted.  With the
\* connection up, the write of that call, the delete being the last change of
\* f since its read (no create since), succeeds and recreates the object from
\* the content it had read: f exists again and exists(f) returns true.
C17_WriteRecreatesDeleted ==
    (/\ last.op = "writeChunk"
     /\ last.args.over.op = "deleteChunkedUpload"
     /\ net = "up") =>
        /\ last.ok
        /\ store[ChunkPath].exists
        /\ ChunkObject = Prefix(last.args.object, ChunkOffset) \o ChunkBytes
        /\ exists(last.args.f).ok
        /\ exists(last.args.f).ret = TRUE

\* deleteChunkedUpload returned while a writeChunk on a non-empty object was
\* in flight, and that call's write has put the object back.
C17_Witness ==
    /\ ChunkWritten
    /\ last.args.over.op = "deleteChunkedUpload"
    /\ Len(last.args.object) > 0
    /\ ChunkOffset > 0
    /\ store[ChunkPath].exists
    /\ exists(last.args.f).ret = TRUE

\* C18: writeChunk never creates an upload on its own.  With one caller, a
\* writeChunk(f, c, offset) whose read finds no object at f goes no further:
\* the call ends there, raising the backend's read error, having issued the
\* failed read and no write, and f is still absent.
C18_Step ==
    LET c == wc[1]
        remotePath == fullPath(c.f)
    IN (c.pc = "read" /\ ~store[remotePath].exists) =>
          /\ wc'[1].pc \in {"read", "idle"}
          /\ store' = store
          /\ wc'[1].pc = "idle" =>
                /\ last'.op = "writeChunk"
                /\ ~last'.ok
                /\ last'.args.f = c.f /\ last'.args.offset = c.offset
                /\ last'.trace = <<Call("getFileContents", <<remotePath, "binary">>, FALSE)>>
                /\ last'.ret = (IF net = "up" THEN "notfound" ELSE "transport")
                /\ ~store'[remotePath].exists
C18_NoUploadWithoutCreate == [][C18_Step]_vars

\* A writeChunk of a non-empty chunk at a positive offset on a path where
\* nothing exists, over a working connection: not found, nothing written.
C18_Witness ==
    /\ last.op = "writeChunk"
    /\ ~last.ok
    /\ net = "up"
    /\ last.ret = "notfound"
    /\ Len(last.trace) = 1
    /\ ChunkOffset > 0
    /\ Len(ChunkBytes) > 0
    /\ ~store[ChunkPath].exists

\* C19: the plain driver (webdav.ts) and the chunked-upload driver (index.ts)
\* are equivalent on the base contract.  Whichever of the two a call of read,
\* stat, exists, move, copy, write, delete or list is made on, the backend
\* calls it issues, with their arguments, its result and the store it leaves
\* are those the handler of each variant yields for the same arguments, from
\* the same configuration and the same backend state; for list this holds of
\* every next() of the listing.
C19_Step ==
    LET a == last'.args IN
    \A self \in SameConfig :
        /\ last'.op = "read" =>
              /\ Observed = read(a.f, a.options)
              /\ Observed = plain_read(self, a.f, a.options)
        /\ last'.op = "stat" =>
              \E shape \in StatShapes :
                  /\ Observed = stat(a.f, shape)
                  /\ Observed = plain_stat(self, a.f, shape)
        /\ last'.op = "exists" =>
              /\ Observed = exists(a.f)
              /\ Observed = plain_exists(self, a.f)
        /\ last'.op = "move" =>
              /\ Observed = move(a.src, a.dest)
              /\ Observed = plain_move(self, a.src, a.dest)
        /\ last'.op = "copy" =>
              /\ Observed = copy(a.src, a.dest)
              /\ Observed = plain_copy(self, a.src, a.dest)
        /\ last'.op = "write" =>
              \E content \in Streams :
                  /\ Observed = write(a.f, content)
                  /\ Observed = plain_write(self, a.f, content)
        /\ last'.op = "delete" =>
              /\ Observed = delete(a.f)
              /\ Observed = plain_delete(self, a.f)
        /\ last'.op \in {"list", "listYield"} =>
              LET res == Wrap(a.env, AsArray(a.listing))
                  r == listResume(ls.pc, ls.prefix, ls.rest, res)
                  q == plain_listResume(self, ls.pc, ls.prefix, ls.rest, res)
              IN /\ r.kind = q.kind /\ r.trace = q.trace /\ r.rest = q.rest
                 /\ r.kind = "yield" => r.value = q.value
                 /\ last'.trace = ls.trace \o r.trace
                 /\ last'.ok = (r.kind # "throw")
                 /\ (last'.op = "listYield") = (r.kind = "yield")
                 /\ r.kind = "yield" => (last'.ret = r.value /\ ls'.rest = r.rest)
                 /\ store' = store
C19_PlainDriverEquivalent == [][C19_Step]_vars

\* A listing of two files consumed to its end on the plain driver under a
\* relative root, the working directory changing between the two paths.
C19_Witness ==
    /\ last.op = "list"
    /\ last.args.driver # None
    /\ last.ok
    /\ root = <<"r">>
    /\ Len(last.ret) = 2
    /\ Len(last.args.listing) = 2
    /\ last.args.listing[1] # last.args.listing[2]
    /\ Len(SplitPath(last.ret[1])) # Len(SplitPath(last.ret[2]))

====
